---------------------------- MODULE Spec2Model ----------------------------
(***************************************************************************)
(* A model of server.js: the startup sequence (API-key check, knowledge    *)
(* load, listen), the GET / and POST /chat handlers with their await       *)
(* points, and the response clean-up (fence removal, trim, JSON.parse).    *)
(*                                                                         *)
(* Texts that the code scans character by character (the model's reply)    *)
(* are sequences of symbols.  A symbol is one character ("j", "{", the     *)
(* backtick) or an indivisible lexeme of several characters that contains  *)
(* no backtick and does not begin with "j" ("null", "answer", "Sorry"), so *)
(* the regular expression of line 119 sees it exactly as it sees the       *)
(* characters it stands for.  Texts that the code only copies (knowledge   *)
(* text, question, history, audio payload) are TLA+ strings.               *)
(***************************************************************************)
EXTENDS Integers, Sequences, FiniteSets

(***************************************************************************)
(* Bounds of the model.                                                    *)
(***************************************************************************)
\* Number of request slots (each slot carries one GET / or POST /chat).
MaxReq == 2
\* Longest raw text, counted in pieces, the normalizer is explored on.
MaxPieces == 5

Requests == 1..MaxReq

(***************************************************************************)
(* JavaScript values of the request body fields.                           *)
(***************************************************************************)
Undefined == [t |-> "undefined", v |-> ""]
Str(s) == [t |-> "string", v |-> s]

\* JavaScript truthiness of a body field: undefined and "" are falsy.
Truthy(x) == x.t = "string" /\ x.v # ""

\* Template-literal conversion `${x}` of a body field.
ToStringJS(x) == IF x.t = "undefined" THEN "undefined" ELSE x.v

(***************************************************************************)
(* JSON values, as JSON.parse builds them.  An object is its set of        *)
(* members, one per key.                                                   *)
(***************************************************************************)
JNull == [t |-> "null", n |-> 0, s |-> <<>>, m |-> {}]
JNumber(n) == [t |-> "number", n |-> n, s |-> <<>>, m |-> {}]
JString(s) == [t |-> "string", n |-> 0, s |-> s, m |-> {}]
JObject(m) == [t |-> "object", n |-> 0, s |-> <<>>, m |-> m]

HasKey(val, k) == val.t = "object" /\ \E mem \in val.m : mem.k = k
Get(val, k) == (CHOOSE mem \in val.m : mem.k = k).v

(***************************************************************************)
(* Response clean-up, line 119:                                            *)
(*   text.replace(/```json|```/g, '').trim()                               *)
(***************************************************************************)
\* The character U+0060 (SANY's lexer takes no backtick inside a string).
Backtick == "<backtick>"
Fence == <<Backtick, Backtick, Backtick>>
FenceJson == <<Backtick, Backtick, Backtick, "j", "s", "o", "n">>

HasPrefix(s, p) == Len(s) >= Len(p) /\ SubSeq(s, 1, Len(p)) = p
Drop(s, k) == SubSeq(s, k + 1, Len(s))

RECURSIVE StripFencesNoJson(_)
\* Mutation: the pattern lost its ```json alternative (/```/g).
StripFencesNoJson(s) ==
    IF s = <<>> THEN <<>>
    ELSE IF HasPrefix(s, Fence) THEN StripFencesNoJson(Drop(s, Len(Fence)))
    ELSE <<Head(s)>> \o StripFencesNoJson(Tail(s))

\* Mutation: the pattern lost its g flag and replaces the first match only.
StripFencesFirstOnly(s) ==
    IF \E i \in 1..Len(s) : HasPrefix(Drop(s, i - 1), Fence)
    THEN LET i == CHOOSE k \in 1..Len(s) :
                      /\ HasPrefix(Drop(s, k - 1), Fence)
                      /\ \A l \in 1..(k - 1) : ~HasPrefix(Drop(s, l - 1), Fence)
             rest == Drop(s, i - 1)
         IN  SubSeq(s, 1, i - 1) \o
             (IF HasPrefix(rest, FenceJson) THEN Drop(rest, Len(FenceJson))
                                            ELSE Drop(rest, Len(Fence)))
    ELSE s

RECURSIVE StripFences(_)
\* replace(/```json|```/g, ''): scanning from the left, at each position the
\* first alternative that matches is removed and the scan resumes after it.
StripFences(s) ==
    IF s = <<>> THEN <<>>
    ELSE IF HasPrefix(s, FenceJson) THEN StripFences(Drop(s, Len(FenceJson)))
    ELSE IF HasPrefix(s, Fence) THEN StripFences(Drop(s, Len(Fence)))
    ELSE <<Head(s)>> \o StripFences(Tail(s))

\* Whitespace that String.prototype.trim removes (those of the alphabet).
IsSpace(c) == c \in {" ", "\n", "\t", "\r"}

RECURSIVE TrimStart(_)
TrimStart(s) ==
    IF s # <<>> /\ IsSpace(Head(s)) THEN TrimStart(Tail(s)) ELSE s

RECURSIVE TrimEnd(_)
TrimEnd(s) ==
    IF s # <<>> /\ IsSpace(s[Len(s)]) THEN TrimEnd(SubSeq(s, 1, Len(s) - 1))
    ELSE s

Trim(s) == TrimEnd(TrimStart(s))

cleanJson(text) == Trim(StripFences(text))

(***************************************************************************)
(* JSON.parse, line 120, on the symbols of the alphabet: null, numbers     *)
(* written with digits, strings without escapes, objects (nested).         *)
(* Anything else is a SyntaxError (ok = FALSE).                            *)
(***************************************************************************)
Digits == {"0", "1", "2", "3", "4", "5", "6", "7", "8", "9"}
DigitVal(c) ==
    CASE c = "0" -> 0 [] c = "1" -> 1 [] c = "2" -> 2 [] c = "3" -> 3
      [] c = "4" -> 4 [] c = "5" -> 5 [] c = "6" -> 6 [] c = "7" -> 7
      [] c = "8" -> 8 [] c = "9" -> 9

ParseFail == [ok |-> FALSE, val |-> JNull, next |-> 0]
ParseOk(v, next) == [ok |-> TRUE, val |-> v, next |-> next]

\* First position at or after i that holds no JSON whitespace.
RECURSIVE SkipWs(_, _)
SkipWs(s, i) ==
    IF i <= Len(s) /\ IsSpace(s[i]) THEN SkipWs(s, i + 1) ELSE i

\* The digits from position i on, accumulated in base ten.
RECURSIVE ParseDigits(_, _, _)
ParseDigits(s, i, acc) ==
    IF i <= Len(s) /\ s[i] \in Digits
    THEN ParseDigits(s, i + 1, 10 * acc + DigitVal(s[i]))
    ELSE ParseOk(JNumber(acc), i)

\* A number: 0, or a digit from 1 to 9 followed by digits.
ParseNumber(s, i) ==
    IF s[i] = "0" THEN ParseOk(JNumber(0), i + 1) ELSE ParseDigits(s, i, 0)

\* A string: from the quote at i to the next quote; no raw control character.
ParseString(s, i) ==
    IF i <= Len(s) /\ s[i] = "\"" /\ \E j \in (i + 1)..Len(s) : s[j] = "\""
    THEN LET j == CHOOSE k \in (i + 1)..Len(s) :
                      s[k] = "\"" /\ \A l \in (i + 1)..(k - 1) : s[l] # "\""
             body == SubSeq(s, i + 1, j - 1)
         IN  IF \E l \in 1..Len(body) : body[l] \in {"\n", "\t", "\r"}
             THEN ParseFail
             ELSE ParseOk(JString(body), j + 1)
    ELSE ParseFail

\* A repeated key keeps its last value.
PutMember(m, k, v) == {mem \in m : mem.k # k} \cup {[k |-> k, v |-> v]}

RECURSIVE ParseValue(_, _)
RECURSIVE ParseMembers(_, _, _)

ParseValue(s, i) ==
    IF i > Len(s) THEN ParseFail
    ELSE IF s[i] = "null" THEN ParseOk(JNull, i + 1)
    ELSE IF s[i] \in Digits THEN ParseNumber(s, i)
    ELSE IF s[i] = "\"" THEN ParseString(s, i)
    ELSE IF s[i] = "{"
         THEN LET j == SkipWs(s, i + 1)
              IN  IF j <= Len(s) /\ s[j] = "}" THEN ParseOk(JObject({}), j + 1)
                  ELSE ParseMembers(s, j, {})
    ELSE ParseFail

\* The members of an object from position i (a key) to its closing brace.
ParseMembers(s, i, acc) ==
    LET key == ParseString(s, i)
    IN  IF ~key.ok THEN ParseFail
        ELSE LET c == SkipWs(s, key.next)
             IN  IF c > Len(s) \/ s[c] # ":" THEN ParseFail
                 ELSE LET v == ParseValue(s, SkipWs(s, c + 1))
                      IN  IF ~v.ok THEN ParseFail
                          ELSE LET e == SkipWs(s, v.next)
                                   m == PutMember(acc, key.val.s, v.val)
                               IN  IF e > Len(s) THEN ParseFail
                                   ELSE IF s[e] = ","
                                        THEN ParseMembers(s, SkipWs(s, e + 1), m)
                                   ELSE IF s[e] = "}"
                                        THEN ParseOk(JObject(m), e + 1)
                                   ELSE ParseFail

\* JSON.parse(text): one value, with only whitespace around it.
JSONparse(s) ==
    LET r == ParseValue(s, SkipWs(s, 1))
    IN  IF r.ok /\ SkipWs(s, r.next) > Len(s)
        THEN [ok |-> TRUE, val |-> r.val]
        ELSE [ok |-> FALSE, val |-> JNull]

(***************************************************************************)
(* The prompt, lines 64-110.  A text part is the sequence of the segments  *)
(* its template literal concatenates; an inline part carries a MIME type   *)
(* and a payload.                                                          *)
(***************************************************************************)
TextPart(segs) ==
    [kind |-> "text", segs |-> segs, mimeType |-> "", data |-> ""]
InlinePart(mime, data) ==
    [kind |-> "inlineData", segs |-> <<>>, mimeType |-> mime, data |-> data]

QuestionPrefix == "CURRENT USER QUESTION: "
NoContext == "No previous context."

\* Lines 66-93: the instruction block around the two interpolated values.
\* Its rule 2 names the "CURRENT USER QUESTION" inside the rules segment.
systemInstruction(guide, userHistory) ==
    TextPart(<<"You are a helpful Medical Learning Assistant. CONTEXT DATA: ",
               guide,
               "PREVIOUS CONVERSATION (Memory): ",
               userHistory,
               "STRICT RULES: 1. ... 2. Analyze the \"CURRENT USER QUESTION\". ... OUTPUT FORMAT (JSON ONLY): { \"answer\": ..., \"topic\": ... }">>)

\* Line 52: req.body.history || "No previous context."
HistoryOrDefault(history) == IF Truthy(history) THEN history.v ELSE NoContext

\* Mutation: the audio branch also pushes the question text.
BuildPromptBoth(guide, question, audio, history) ==
    <<systemInstruction(guide, HistoryOrDefault(history))>> \o
    (IF Truthy(audio)
     THEN <<InlinePart("audio/wav", audio.v),
            TextPart(<<"Answer this medical question from the audio.">>),
            TextPart(<<QuestionPrefix, ToStringJS(question)>>)>>
     ELSE <<TextPart(<<QuestionPrefix, ToStringJS(question)>>)>>)

\* Lines 64-110: promptParts as passed to generateContent.
BuildPrompt(guide, question, audio, history) ==
    <<systemInstruction(guide, HistoryOrDefault(history))>> \o
    (IF Truthy(audio)
     THEN <<InlinePart("audio/wav", audio.v),
            TextPart(<<"Answer this medical question from the audio.">>)>>
     ELSE <<TextPart(<<QuestionPrefix, ToStringJS(question)>>)>>)

IsInlineAudio(p) == p.kind = "inlineData" /\ p.mimeType = "audio/wav"
IsQuestionPart(p) ==
    p.kind = "text" /\ Len(p.segs) >= 1 /\ p.segs[1] = QuestionPrefix
CountInlineAudio(parts) ==
    Cardinality({i \in 1..Len(parts) : IsInlineAudio(parts[i])})
CountQuestionParts(parts) ==
    Cardinality({i \in 1..Len(parts) : IsQuestionPart(parts[i])})

(***************************************************************************)
(* Responses.                                                              *)
(***************************************************************************)
Answer(text) == JObject({[k |-> <<"answer">>, v |-> JString(<<text>>)]})

\* Line 57.
MissingDataResponse ==
    [status |-> 500, body |-> Answer("Error: Medical data not loaded."),
     exit |-> "missingData"]
\* Lines 129-131.
FallbackResponse ==
    [status |-> 500, body |-> Answer("I had trouble understanding that."),
     exit |-> "fallback"]
\* Line 125: res.json(data), with the default status.
SuccessResponse(data) == [status |-> 200, body |-> data, exit |-> "success"]
\* Line 46: res.send of the liveness string (its trailing emoji left out).
RootResponse ==
    [status |-> 200, body |-> JString(<<"Medical AI Server is Online!">>),
     exit |-> "root"]

(***************************************************************************)
(* What the external model may answer.                                     *)
(***************************************************************************)
Quote == "\""
Key(name) == <<Quote, name, Quote, ":">>
Lit(text) == <<Quote, text, Quote>>

\* { "answer": "...", "topic": "Diabetes" }
GoodJson ==
    <<"{">> \o Key("answer") \o Lit("Insulin lowers blood sugar.") \o <<",">>
    \o <<" ">> \o Key("topic") \o Lit("Diabetes") \o <<"}">>
\* The same with a code fence inside the answer string.
FenceInStringJson ==
    <<"{">> \o Key("answer") \o <<Quote, "Take">> \o Fence \o <<"insulin">>
    \o Fence \o <<Quote>> \o <<",">> \o Key("topic") \o Lit("Diabetes")
    \o <<"}">>
AnswerOnlyJson == <<"{">> \o Key("answer") \o Lit("Rest.") \o <<"}">>
NumericAnswerJson ==
    <<"{">> \o Key("answer") \o <<"4", "2">> \o <<",">> \o Key("topic")
    \o Lit("Diabetes") \o <<"}">>
EmptyObjectJson == <<"{", "}">>
NumberJson == <<"4", "2">>
NullJson == <<"null">>
Prose == <<"Sorry", " ", "I", " ", "cannot", " ", "answer.">>

\* Objects of the shape the instruction block asks for.
ShapedInners == {GoodJson, FenceInStringJson}
Inners ==
    ShapedInners \cup {AnswerOnlyJson, NumericAnswerJson, EmptyObjectJson,
                       NumberJson, NullJson, Prose}

FencedJson(inner) == FenceJson \o <<"\n">> \o inner \o <<"\n">> \o Fence
FencedPlain(inner) == Fence \o <<"\n">> \o inner \o <<"\n">> \o Fence

ModelTexts ==
    Inners \cup {FencedJson(i) : i \in Inners}
           \cup {FencedPlain(i) : i \in ShapedInners}

\* How generateContent settles: it rejects, or it resolves with a response
\* whose text() throws, or with a response whose text() returns a text.
Rejected == [kind |-> "rejected", text |-> <<>>]
NoResult == [kind |-> "none", text |-> <<>>]
Resolutions ==
    {[kind |-> "textThrows", text |-> <<>>]}
    \cup {[kind |-> "text", text |-> t] : t \in ModelTexts}

(***************************************************************************)
(* Inputs.                                                                 *)
(***************************************************************************)
\* Contents of medical_data.txt when it can be read (it may be empty).
FileContents == {"", "Diabetes causes high blood sugar."}
Questions == {Undefined, Str("What is diabetes?")}
Audios == {Undefined, Str(""), Str("UklGRiQAAABXQVZF")}
Histories == {Undefined, Str("Previously discussed: Diabetes")}
NoBody == [question |-> Undefined, audio |-> Undefined, history |-> Undefined]

\* Raw texts of the normalizer runs are concatenations of these pieces.
Pieces ==
    {<<Backtick>>, Fence, <<"j", "s", "o", "n">>, <<"j">>, <<" ">>, <<"1">>}

(***************************************************************************)
(* State.                                                                  *)
(***************************************************************************)
VARIABLES
    bootPc,            \* position of the module's top-level code
    medicalGuideText,  \* line 30
    writes,            \* number of assignments to medicalGuideText so far
    pc,                \* per request: position of its handler
    route,             \* per request: "GET /" or "POST /chat"
    body,              \* per request: req.body of a handler that is running
    promptParts,       \* per request: the parts passed to generateContent
    calls,             \* per request: number of generateContent calls
    modelResult,       \* per request: how its generateContent call settled
    responses,         \* per request: the responses sent, in order
    normPc,            \* normalizer run: "input" or "normalized"
    rawText,           \* normalizer run: the text
    pieces,            \* normalizer run: number of pieces rawText is made of
    cleaned,           \* cleanJson of rawText
    cleanedTwice,      \* cleanJson of cleaned
    cleanedFenced,     \* cleanJson of rawText wrapped in a json fence
    parsed,            \* JSON.parse of cleaned
    parsedFenced       \* JSON.parse of cleanedFenced

serverVars ==
    <<bootPc, medicalGuideText, writes, pc, route, body, promptParts, calls,
      modelResult, responses>>
normVars ==
    <<normPc, rawText, pieces, cleaned, cleanedTwice, cleanedFenced, parsed,
      parsedFenced>>
vars == <<serverVars, normVars>>

Init ==
    /\ bootPc = "config"
    /\ medicalGuideText = ""
    /\ writes = 0
    /\ pc = [r \in Requests |-> "idle"]
    /\ route = [r \in Requests |-> "none"]
    /\ body = [r \in Requests |-> NoBody]
    /\ promptParts = [r \in Requests |-> <<>>]
    /\ calls = [r \in Requests |-> 0]
    /\ modelResult = [r \in Requests |-> NoResult]
    /\ responses = [r \in Requests |-> <<>>]
    /\ normPc = "input"
    /\ rawText = <<>>
    /\ pieces = 0
    /\ cleaned = <<>>
    /\ cleanedTwice = <<>>
    /\ cleanedFenced = <<>>
    /\ parsed = [ok |-> FALSE, val |-> JNull]
    /\ parsedFenced = [ok |-> FALSE, val |-> JNull]

(***************************************************************************)
(* Startup, lines 19-22 and 136-139.                                       *)
(***************************************************************************)
\* Lines 19-22: without GEMINI_API_KEY the process exits.
CheckApiKey ==
    /\ bootPc = "config"
    /\ \E hasKey \in BOOLEAN :
           bootPc' = IF hasKey THEN "load" ELSE "exited"
    /\ UNCHANGED <<medicalGuideText, writes, pc, route, body, promptParts,
                   calls, modelResult, responses, normVars>>

\* Lines 33-41 (called at line 136): readFileSync returns the file's content,
\* which is assigned, or throws, which is logged.
loadMedicalData ==
    /\ bootPc = "load"
    /\ \E readable \in BOOLEAN, content \in FileContents :
           IF readable
           THEN /\ medicalGuideText' = content
                /\ writes' = writes + 1
           ELSE /\ content = ""
                /\ UNCHANGED <<medicalGuideText, writes>>
    /\ bootPc' = "listen"
    /\ UNCHANGED <<pc, route, body, promptParts, calls, modelResult,
                   responses, normVars>>

\* Line 137: app.listen.
Listen ==
    /\ bootPc = "listen"
    /\ bootPc' = "listening"
    /\ UNCHANGED <<medicalGuideText, writes, pc, route, body, promptParts,
                   calls, modelResult, responses, normVars>>

(***************************************************************************)
(* GET /, lines 45-47.                                                     *)
(***************************************************************************)
GetRoot(r) ==
    /\ bootPc = "listening"
    /\ pc[r] = "idle"
    /\ route' = [route EXCEPT ![r] = "GET /"]
    /\ responses' = [responses EXCEPT ![r] = Append(@, RootResponse)]
    /\ pc' = [pc EXCEPT ![r] = "done"]
    /\ UNCHANGED <<bootPc, medicalGuideText, writes, body, promptParts, calls,
                   modelResult, normVars>>

(***************************************************************************)
(* POST /chat, lines 49-133.  The handler runs to its first await (line    *)
(* 113) in one step; it resumes when generateContent settles.              *)
(***************************************************************************)
\* Mutation: the missing-data check of lines 56-58 is gone.
ChatReceiveNoGuard(r) ==
    /\ bootPc = "listening"
    /\ pc[r] = "idle"
    /\ route' = [route EXCEPT ![r] = "POST /chat"]
    /\ \E question \in Questions, audio \in Audios, history \in Histories :
           /\ body' = [body EXCEPT ![r] = [question |-> question,
                                           audio |-> audio,
                                           history |-> history]]
           /\ promptParts' =
                  [promptParts EXCEPT
                       ![r] = BuildPrompt(medicalGuideText, question, audio,
                                          history)]
           /\ calls' = [calls EXCEPT ![r] = @ + 1]
           /\ pc' = [pc EXCEPT ![r] = "awaitGenerate"]
           /\ UNCHANGED responses
    /\ UNCHANGED <<bootPc, medicalGuideText, writes, modelResult, normVars>>

\* Mutation: a request that finds no knowledge text reads the file again.
ChatReceiveReload(r) ==
    /\ bootPc = "listening"
    /\ pc[r] = "idle"
    /\ route' = [route EXCEPT ![r] = "POST /chat"]
    /\ \E question \in Questions, audio \in Audios, history \in Histories,
          content \in FileContents :
           IF medicalGuideText = ""
           THEN /\ medicalGuideText' = content
                /\ writes' = writes + 1
                /\ responses' =
                       [responses EXCEPT ![r] = Append(@, MissingDataResponse)]
                /\ pc' = [pc EXCEPT ![r] = "done"]
                /\ UNCHANGED <<body, promptParts, calls>>
           ELSE /\ body' = [body EXCEPT ![r] = [question |-> question,
                                                audio |-> audio,
                                                history |-> history]]
                /\ promptParts' =
                       [promptParts EXCEPT
                            ![r] = BuildPrompt(medicalGuideText, question,
                                               audio, history)]
                /\ calls' = [calls EXCEPT ![r] = @ + 1]
                /\ pc' = [pc EXCEPT ![r] = "awaitGenerate"]
                /\ UNCHANGED <<responses, medicalGuideText, writes>>
    /\ UNCHANGED <<bootPc, modelResult, normVars>>

\* Lines 49-113: read the body, answer 500 at once when the knowledge text
\* is falsy, else build the prompt and call generateContent.
ChatReceive(r) ==
    /\ bootPc = "listening"
    /\ pc[r] = "idle"
    /\ route' = [route EXCEPT ![r] = "POST /chat"]
    /\ \E question \in Questions, audio \in Audios, history \in Histories :
           IF medicalGuideText = ""
           THEN /\ responses' =
                       [responses EXCEPT ![r] = Append(@, MissingDataResponse)]
                /\ pc' = [pc EXCEPT ![r] = "done"]
                /\ UNCHANGED <<body, promptParts, calls>>
           ELSE /\ body' = [body EXCEPT ![r] = [question |-> question,
                                                audio |-> audio,
                                                history |-> history]]
                /\ promptParts' =
                       [promptParts EXCEPT
                            ![r] = BuildPrompt(medicalGuideText, question,
                                               audio, history)]
                /\ calls' = [calls EXCEPT ![r] = @ + 1]
                /\ pc' = [pc EXCEPT ![r] = "awaitGenerate"]
                /\ UNCHANGED responses
    /\ UNCHANGED <<bootPc, medicalGuideText, writes, modelResult, normVars>>

\* Mutation: a rejected call is tried once more before giving up.
GenerateRejectsRetry(r) ==
    /\ pc[r] = "awaitGenerate"
    /\ IF calls[r] < 2
       THEN /\ calls' = [calls EXCEPT ![r] = @ + 1]
            /\ UNCHANGED <<pc, body, promptParts, modelResult, responses>>
       ELSE /\ modelResult' = [modelResult EXCEPT ![r] = Rejected]
            /\ responses' = [responses EXCEPT ![r] = Append(@, FallbackResponse)]
            /\ pc' = [pc EXCEPT ![r] = "done"]
            /\ body' = [body EXCEPT ![r] = NoBody]
            /\ promptParts' = [promptParts EXCEPT ![r] = <<>>]
            /\ UNCHANGED calls
    /\ UNCHANGED <<bootPc, medicalGuideText, writes, route, normVars>>

\* Line 113 rejects: the catch of lines 127-131 answers.  The handler's
\* locals (body, promptParts) are not read after line 113.
GenerateRejects(r) ==
    /\ pc[r] = "awaitGenerate"
    /\ modelResult' = [modelResult EXCEPT ![r] = Rejected]
    /\ responses' = [responses EXCEPT ![r] = Append(@, FallbackResponse)]
    /\ pc' = [pc EXCEPT ![r] = "done"]
    /\ body' = [body EXCEPT ![r] = NoBody]
    /\ promptParts' = [promptParts EXCEPT ![r] = <<>>]
    /\ UNCHANGED <<bootPc, medicalGuideText, writes, route, calls, normVars>>

\* Line 113 resolves; the handler stops again at the await of line 114.
GenerateResolves(r) ==
    /\ pc[r] = "awaitGenerate"
    /\ \E res \in Resolutions :
           modelResult' = [modelResult EXCEPT ![r] = res]
    /\ pc' = [pc EXCEPT ![r] = "awaitResponse"]
    /\ body' = [body EXCEPT ![r] = NoBody]
    /\ promptParts' = [promptParts EXCEPT ![r] = <<>>]
    /\ UNCHANGED <<bootPc, medicalGuideText, writes, route, calls, responses,
                   normVars>>

\* Mutation: the missing reply is echoed to the caller with the error.
RespondLeaky(result) ==
    IF result.kind = "textThrows" THEN FallbackResponse
    ELSE LET data == JSONparse(cleanJson(result.text))
         IN  IF ~data.ok
             THEN [status |-> 500,
                   body |-> JObject({[k |-> <<"answer">>,
                                      v |-> JString(<<"SyntaxError: ">>
                                                    \o result.text)]}),
                   exit |-> "fallback"]
             ELSE IF data.val.t = "null" THEN FallbackResponse
             ELSE SuccessResponse(data.val)

\* Mutation: the text is parsed as received, without the clean-up.
RespondNoClean(result) ==
    IF result.kind = "textThrows" THEN FallbackResponse
    ELSE LET data == JSONparse(result.text)
         IN  IF ~data.ok THEN FallbackResponse
             ELSE IF data.val.t = "null" THEN FallbackResponse
             ELSE SuccessResponse(data.val)

\* Lines 115-131: text() may throw; JSON.parse may throw a SyntaxError;
\* data.answer (line 122) throws a TypeError when data is null; every throw
\* lands in the catch.  Otherwise data is sent as it was parsed.
Respond(result) ==
    IF result.kind = "textThrows" THEN FallbackResponse
    ELSE LET data == JSONparse(cleanJson(result.text))
         IN  IF ~data.ok THEN FallbackResponse
             ELSE IF data.val.t = "null" THEN FallbackResponse
             ELSE SuccessResponse(data.val)

\* Mutation: the catch also runs after a response was sent.
ChatResumeTwice(r) ==
    /\ pc[r] = "awaitResponse"
    /\ responses' =
           [responses EXCEPT
                ![r] = IF Respond(modelResult[r]).status = 200
                       THEN @ \o <<Respond(modelResult[r]), FallbackResponse>>
                       ELSE Append(@, Respond(modelResult[r]))]
    /\ pc' = [pc EXCEPT ![r] = "done"]
    /\ UNCHANGED <<bootPc, medicalGuideText, writes, route, body, promptParts,
                   calls, modelResult, normVars>>

\* Lines 114-132: the rest of the handler, run when the await of line 114
\* resumes.
ChatResume(r) ==
    /\ pc[r] = "awaitResponse"
    /\ responses' = [responses EXCEPT ![r] = Append(@, Respond(modelResult[r]))]
    /\ pc' = [pc EXCEPT ![r] = "done"]
    /\ UNCHANGED <<bootPc, medicalGuideText, writes, route, body, promptParts,
                   calls, modelResult, normVars>>

Next ==
    \/ CheckApiKey
    \/ loadMedicalData
    \/ Listen
    \/ \E r \in Requests : GetRoot(r)
    \/ \E r \in Requests : ChatReceive(r)
    \/ \E r \in Requests : GenerateRejects(r)
    \/ \E r \in Requests : GenerateResolves(r)
    \/ \E r \in Requests : ChatResume(r)

Spec == Init /\ [][Next]_vars

(***************************************************************************)
(* The clean-up of lines 119-120 run on its own, on every text made of at  *)
(* most MaxPieces pieces: on the text, on its own result, and on the text  *)
(* wrapped in a json fence.                                                *)
(***************************************************************************)
WrapInFence(inner) == FenceJson \o inner \o Fence

AppendPiece(p) ==
    /\ normPc = "input"
    /\ pieces < MaxPieces
    /\ rawText' = rawText \o p
    /\ pieces' = pieces + 1
    /\ UNCHANGED <<normPc, cleaned, cleanedTwice, cleanedFenced, parsed,
                   parsedFenced, serverVars>>

Normalize ==
    /\ normPc = "input"
    /\ cleaned' = cleanJson(rawText)
    /\ cleanedTwice' = cleanJson(cleanJson(rawText))
    /\ cleanedFenced' = cleanJson(WrapInFence(rawText))
    /\ parsed' = JSONparse(cleanJson(rawText))
    /\ parsedFenced' = JSONparse(cleanJson(WrapInFence(rawText)))
    /\ normPc' = "normalized"
    /\ UNCHANGED <<rawText, pieces, serverVars>>

NormNext ==
    \/ \E p \in Pieces : AppendPiece(p)
    \/ Normalize

NormSpec == Init /\ [][NormNext]_vars

(***************************************************************************)
(* Properties.                                                             *)
(***************************************************************************)
IsChat(r) == route[r] = "POST /chat"
StatusBody(resp) == <<resp.status, resp.body>>
MissingDataBody ==
    JObject({[k |-> <<"answer">>,
              v |-> JString(<<"Error: Medical data not loaded.">>)]})
FallbackBody ==
    JObject({[k |-> <<"answer">>,
              v |-> JString(<<"I had trouble understanding that.">>)]})

\* C1: every POST /chat request handled while the knowledge text is empty,
\* whatever its question, audio and history, is answered with status 500
\* and the body { answer: "Error: Medical data not loaded." }, and no call
\* to the external model is made for it.
C1_MissingDataAnswer ==
    \A r \in Requests :
        (IsChat(r) /\ medicalGuideText = "") =>
            /\ pc[r] = "done"
            /\ Len(responses[r]) = 1
            /\ StatusBody(responses[r][1]) = <<500, MissingDataBody>>
            /\ calls[r] = 0
            /\ modelResult[r] = NoResult

\* A chat request was answered after the load failed.
C1_Witness ==
    \E r \in Requests :
        IsChat(r) /\ pc[r] = "done" /\ medicalGuideText = "" /\ writes = 0

AudioPartsOnly(parts) ==
    CountInlineAudio(parts) = 1 /\ CountQuestionParts(parts) = 0
QuestionPartOnly(parts) ==
    CountInlineAudio(parts) = 0 /\ CountQuestionParts(parts) = 1

\* C2 (as stated): a request that reaches the model call and supplies audio
\* has exactly one inline-audio part and no "CURRENT USER QUESTION" part; a
\* request that supplies no audio has no inline-audio part and exactly one
\* "CURRENT USER QUESTION" part.
C2_AudioSupplied ==
    \A r \in Requests :
        pc[r] = "awaitGenerate" =>
            IF body[r].audio # Undefined
            THEN AudioPartsOnly(promptParts[r])
            ELSE QuestionPartOnly(promptParts[r])

\* C2 (amended): a request that reaches the model call with a non-empty
\* audio string has exactly one inline-audio part and no "CURRENT USER
\* QUESTION" part; a request whose audio is absent or the empty string has
\* no inline-audio part and exactly one "CURRENT USER QUESTION" part.
C2_AudioNonEmpty ==
    \A r \in Requests :
        pc[r] = "awaitGenerate" =>
            IF body[r].audio # Undefined /\ body[r].audio.v # ""
            THEN AudioPartsOnly(promptParts[r])
            ELSE QuestionPartOnly(promptParts[r])

\* A call is in flight for a request that supplied both a question and a
\* non-empty audio, and another for a request that supplied neither.
C2_Witness ==
    \E r, q \in Requests :
        /\ pc[r] = "awaitGenerate"
        /\ body[r].audio = Str("UklGRiQAAABXQVZF")
        /\ body[r].question = Str("What is diabetes?")
        /\ pc[q] = "awaitGenerate"
        /\ body[q].audio = Undefined
        /\ body[q].question = Undefined

\* The downstream steps of a settled call failed: the call threw, text()
\* threw, JSON.parse threw, or data.answer threw on a parsed null.
DownstreamFailed(res) ==
    \/ res.kind = "rejected"
    \/ res.kind = "textThrows"
    \/ res.kind = "text" /\ ~JSONparse(cleanJson(res.text)).ok
    \/ res.kind = "text" /\ JSONparse(cleanJson(res.text)).val = JNull

\* C3: with a non-empty knowledge text, a request whose model call throws,
\* whose response text cannot be read, or whose cleaned text is not
\* parseable JSON is answered with status 500 and exactly the body
\* { answer: "I had trouble understanding that." }.
C3_FallbackAnswer ==
    \A r \in Requests :
        (/\ IsChat(r)
         /\ pc[r] = "done"
         /\ medicalGuideText # ""
         /\ DownstreamFailed(modelResult[r])) =>
            /\ Len(responses[r]) = 1
            /\ StatusBody(responses[r][1]) = <<500, FallbackBody>>

\* One request was answered after its call threw, another after a reply
\* that is no JSON.
C3_Witness ==
    \E r, q \in Requests :
        /\ pc[r] = "done" /\ modelResult[r] = Rejected
        /\ pc[q] = "done" /\ modelResult[q] = [kind |-> "text", text |-> Prose]

\* The object GoodJson denotes.
GoodObject ==
    JObject({[k |-> <<"answer">>,
              v |-> JString(<<"Insulin lowers blood sugar.">>)],
             [k |-> <<"topic">>, v |-> JString(<<"Diabetes">>)]})

\* C4: with a non-empty knowledge text, when the model call succeeds with a
\* well-formed answer/topic object wrapped in code fences, the response has
\* status 200 and its body is the parsed object, which has an answer and a
\* topic.
C4_FencedJsonAnswer ==
    \A r \in Requests :
        (/\ IsChat(r)
         /\ pc[r] = "done"
         /\ modelResult[r].kind = "text"
         /\ \E inner \in ShapedInners :
                modelResult[r].text \in {FencedJson(inner), FencedPlain(inner)})
        =>
            /\ Len(responses[r]) = 1
            /\ responses[r][1].status = 200
            /\ HasKey(responses[r][1].body, <<"answer">>)
            /\ HasKey(responses[r][1].body, <<"topic">>)
            /\ modelResult[r].text = FencedJson(GoodJson)
                   => responses[r][1].body = GoodObject

\* A request was answered from GoodJson in a json fence.
C4_Witness ==
    \E r \in Requests :
        /\ pc[r] = "done"
        /\ modelResult[r] = [kind |-> "text", text |-> FencedJson(GoodJson)]
        /\ Len(responses[r]) = 1

\* C5: every POST /chat response body is an object whose answer is a string
\* and whose topic, if present, is a string.
C5_ResponseShape ==
    \A r \in Requests :
        IsChat(r) =>
            \A i \in 1..Len(responses[r]) :
                LET b == responses[r][i].body
                IN  /\ HasKey(b, <<"answer">>)
                    /\ Get(b, <<"answer">>).t = "string"
                    /\ HasKey(b, <<"topic">>)
                           => Get(b, <<"topic">>).t = "string"

\* C6: the clean-up followed by JSON.parse gives the same result for a text
\* wrapped in a json fence and for the same text without the fence.
C6_FenceInvariance ==
    normPc = "normalized" => parsedFenced = parsed

\* A text that parses was normalized with and without the fence.
C6_Witness ==
    normPc = "normalized" /\ rawText # <<>> /\ parsed.ok /\ parsedFenced.ok

FenceFree(t) == \A i \in 1..Len(t) : ~HasPrefix(Drop(t, i - 1), Fence)

\* c is t without the whitespace at its two ends.
IsTrimOf(c, t) ==
    /\ c = <<>> \/ (~IsSpace(c[1]) /\ ~IsSpace(c[Len(c)]))
    /\ \E i \in 0..Len(t) :
           /\ i + Len(c) <= Len(t)
           /\ SubSeq(t, i + 1, i + Len(c)) = c
           /\ \A k \in 1..i : IsSpace(t[k])
           /\ \A k \in (i + Len(c) + 1)..Len(t) : IsSpace(t[k])

\* C7 (as stated): the clean-up returns a text free of fence markers
\* unchanged, and applying it twice gives what applying it once gives.
C7_NoOpOnFenceFree ==
    normPc = "normalized" =>
        /\ FenceFree(rawText) => cleaned = rawText
        /\ cleanedTwice = cleaned

\* C7 (amended): the clean-up changes a text free of fence markers only by
\* removing the whitespace at its two ends, and applying it twice gives
\* what applying it once gives.
C7_Stable ==
    normPc = "normalized" =>
        /\ FenceFree(rawText) => IsTrimOf(cleaned, rawText)
        /\ cleanedTwice = cleaned

\* A text with a fence was cleaned to a text that still holds backticks.
C7_Witness ==
    /\ normPc = "normalized"
    /\ ~FenceFree(rawText)
    /\ \E i \in 1..Len(cleaned) : cleaned[i] = Backtick

\* C8 (as stated): every POST /chat request triggers exactly one call to
\* the external model.
C8_ExactlyOneCall ==
    \A r \in Requests : IsChat(r) => calls[r] = 1

\* C8 (amended): a POST /chat request never triggers more than one call to
\* the external model; it triggers exactly one when the knowledge text is
\* non-empty and none when the knowledge text is empty.
C8_OneCallUnlessMissingData ==
    \A r \in Requests :
        /\ calls[r] <= 1
        /\ IsChat(r) => calls[r] = (IF medicalGuideText = "" THEN 0 ELSE 1)
        /\ ~IsChat(r) => calls[r] = 0

\* One request was answered after its call threw while another request's
\* call is in flight.
C8_Witness ==
    \E r, q \in Requests :
        /\ pc[r] = "done" /\ modelResult[r] = Rejected /\ calls[r] = 1
        /\ pc[q] = "awaitGenerate" /\ calls[q] = 1

\* C9: the knowledge text is assigned at most once, by the startup load,
\* and no later step changes it.
C9_KnowledgeWrittenOnce ==
    /\ [](writes <= 1)
    /\ [][(medicalGuideText' # medicalGuideText \/ writes' # writes)
              => (bootPc = "load" /\ writes = 0 /\ writes' = 1)]_vars

\* After a failed load a GET / and a POST /chat were answered and the text
\* is still empty.
C9_Witness ==
    \E r, q \in Requests :
        /\ route[r] = "GET /" /\ pc[r] = "done"
        /\ route[q] = "POST /chat" /\ pc[q] = "done"
        /\ writes = 0
        /\ medicalGuideText = ""

\* The response of a request and the exit that sent it.
ExitMatches(r) ==
    LET resp == responses[r][1]
    IN  \/ /\ resp.exit = "missingData"
           /\ resp.status = 500
           /\ medicalGuideText = ""
        \/ /\ resp.exit = "success"
           /\ resp.status = 200
           /\ modelResult[r].kind = "text"
        \/ /\ resp.exit = "fallback"
           /\ resp.status = 500
           /\ modelResult[r].kind \in {"rejected", "textThrows", "text"}

C10_State ==
    \A r \in Requests :
        IsChat(r) =>
            /\ Len(responses[r]) <= 1
            /\ pc[r] = "done" <=> Len(responses[r]) = 1
            /\ pc[r] = "done" => ExitMatches(r)
            /\ pc[r] = "awaitGenerate" =>
                   \A q \in Requests \ {r} :
                       /\ pc[q] = "idle" =>
                              ENABLED ChatReceive(q) /\ ENABLED GetRoot(q)
                       /\ pc[q] = "awaitGenerate" =>
                              /\ ENABLED GenerateResolves(q)
                              /\ ENABLED GenerateRejects(q)

PerRequest(r) ==
    <<pc[r], route[r], body[r], promptParts[r], calls[r], modelResult[r],
      responses[r]>>

C10_Step ==
    \A r \in Requests :
        /\ pc[r] = "done" => PerRequest(r)' = PerRequest(r)
        /\ (pc[r] = "awaitResponse" /\ PerRequest(r)' # PerRequest(r)) =>
               /\ pc'[r] = "done"
               /\ Len(responses'[r]) = 1
        /\ pc'[r] # pc[r] =>
               \A q \in Requests \ {r} : PerRequest(q)' = PerRequest(q)

\* C10: a POST /chat request sends at most one response, through exactly
\* one of its three exits; once its model call has settled, its next step
\* sends exactly one response and ends it; while its model call has not
\* settled it has no response and stays open, the other requests can still
\* be received and their calls can still settle, and no step of one
\* request changes the state of another.
C10_OneResponse == []C10_State /\ [][C10_Step]_vars

\* One request waits for its model call while another, received after it
\* or before it, was answered with status 200.
C10_Witness ==
    \E r, q \in Requests :
        /\ pc[r] = "awaitGenerate" /\ responses[r] = <<>>
        /\ pc[q] = "done" /\ Len(responses[q]) = 1
        /\ responses[q][1].status = 200 /\ IsChat(q)

=============================================================================
